---- MODULE Spec2Model ----
(***************************************************************************)
(* File-upload service (Backend/routers/files.py, storage.py, database.py).*)
(*                                                                         *)
(* The state is the two backends (the blobs in the storage backend, the    *)
(* documents of the "files" collection) and the requests being served,     *)
(* each with the position of its handler.  Requests have no identity of    *)
(* their own, so they are kept as a bag.  The handlers are coroutines that *)
(* call the blocking clients directly, so a run of a handler is one step   *)
(* from one await to the next: from the call to "await file.read()", and   *)
(* from there or from the start to the return or to the wait before the    *)
(* handler's next attempt.  Every backend call may fail in each of the     *)
(* exception classes its library can raise.                                *)
(*                                                                         *)
(* Strings are sequences of one-character strings, byte strings are        *)
(* sequences of numbers.  uuid.uuid4() and the ObjectId that pymongo puts  *)
(* in an inserted document are modelled as values that were never drawn    *)
(* before by anything that still exists: the least number that no stored   *)
(* key, no key of a request in flight and no document carries.             *)
(* upload_date is left out: no handler reads it back.  Backend/main.py is  *)
(* not modelled: it imports the name STORAGE_BACKEND from config, which    *)
(* config.py defines only as an attribute of Config.                       *)
(***************************************************************************)
EXTENDS Integers, Sequences, FiniteSets, Bags, TLC

(* ----------------------------- bounds ---------------------------------- *)
MaxRequests == 2     \* requests served concurrently
MaxBlobs == 2        \* stored blobs plus upload requests in flight
MaxDownloads == 1    \* download requests served concurrently

(* ------------------------ program constants ---------------------------- *)
STOP_AFTER_ATTEMPT == 3          \* tenacity stop_after_attempt(3), on every @retry
OID_LEN == 24                    \* bson.ObjectId: 12 bytes as 24 hex characters
UUID_LEN == 36                   \* str(uuid.uuid4())

HEALTHY == "healthy"
UNHEALTHY == "unhealthy"

ALLOWED_EXTENSIONS ==
  { <<".", "t", "x", "t">>, <<".", "j", "p", "g">>,
    <<".", "p", "n", "g">>, <<".", "j", "s", "o", "n">> }

(* --------------------------- request inputs ---------------------------- *)
NotesTxt == <<"n", ".", "t", "x", "t">>
NotesTXT == <<"N", ".", "T", "X", "T">>
ImageGif == <<"i", ".", "g", "i", "f">>

\* the multipart files a client may send: filename, body, declared type
UploadInputs ==
  { [filename |-> <<>>,     content |-> <<104, 105>>, content_type |-> "text/plain"],
    [filename |-> ImageGif, content |-> <<104, 105>>, content_type |-> "image/gif"],
    [filename |-> NotesTxt, content |-> <<>>,         content_type |-> "text/plain"],
    [filename |-> NotesTxt, content |-> <<104, 105>>, content_type |-> "text/plain"],
    [filename |-> NotesTXT, content |-> <<104>>,      content_type |-> "image/png"] }

\* STORAGE_BACKEND values: "minio", "Local", "s3"
Backends ==
  { <<"m", "i", "n", "i", "o">>, <<"L", "o", "c", "a", "l">>, <<"s", "3">> }

(* ------------------------------ strings -------------------------------- *)
HexDigits == <<"0", "1", "2", "3", "4", "5", "6", "7",
               "8", "9", "a", "b", "c", "d", "e", "f">>

UpperHex == { "A", "B", "C", "D", "E", "F" }

\* str.lower() on one character
LowerChar(ch) ==
  CASE ch = "A" -> "a" [] ch = "B" -> "b" [] ch = "C" -> "c"
    [] ch = "D" -> "d" [] ch = "E" -> "e" [] ch = "F" -> "f"
    [] ch = "T" -> "t" [] ch = "X" -> "x" [] ch = "N" -> "n"
    [] ch = "I" -> "i" [] ch = "G" -> "g" [] ch = "L" -> "l"
    [] OTHER -> ch

\* str.lower()
Lower(s) == [i \in 1..Len(s) |-> LowerChar(s[i])]

\* str.endswith(ext)
EndsWith(s, ext) ==
  /\ Len(s) >= Len(ext)
  /\ SubSeq(s, Len(s) - Len(ext) + 1, Len(s)) = ext

\* files.py line 34: the extension test of the upload handler
IsAllowed(filename) ==
  \E ext \in ALLOWED_EXTENSIONS : EndsWith(Lower(filename), ext)

RECURSIVE Pow16(_)
Pow16(k) == IF k = 0 THEN 1 ELSE 16 * Pow16(k - 1)

\* the k-th hex digit of n counted from the right (k = 0 is the last one);
\* the numbers of the model stay below 16^6
HexDigitAt(n, k) ==
  IF k > 5 THEN "0" ELSE HexDigits[((n \div Pow16(k)) % 16) + 1]

\* str(ObjectId): 24 lower-case hex characters
OidStr(n) == [i \in 1..OID_LEN |-> HexDigitAt(n, OID_LEN - i)]

HexChars == { HexDigits[v] : v \in 1..16 } \cup UpperHex

\* int(ch, 16)
HexValues ==
  [ch \in HexChars |-> CHOOSE v \in 0..15 : HexDigits[v + 1] = LowerChar(ch)]

HexValue(ch) == HexValues[ch]

IsHexChar(ch) == ch \in HexChars

\* bson.ObjectId.is_valid(str): exactly 24 hex characters, either case
ObjectIdIsValid(s) ==
  /\ Len(s) = OID_LEN
  /\ \A i \in 1..Len(s) : IsHexChar(s[i])

\* the number that the first k characters of s spell in base 16
RECURSIVE HexParse(_, _)
HexParse(s, k) ==
  IF k = 0 THEN 0 ELSE 16 * HexParse(s, k - 1) + HexValue(s[k])

\* ObjectId(str) on a valid string (bytes.fromhex)
ObjectIdOf(s) == HexParse(s, Len(s))

\* str(uuid.uuid4()): 8-4-4-4-12 hex characters, version nibble 4
UuidStr(n) ==
  [i \in 1..UUID_LEN |->
     IF i \in {9, 14, 19, 24} THEN "-"
     ELSE IF i = 15 THEN "4"
     ELSE HexDigitAt(n, UUID_LEN - i)]

\* a key that is the filename alone
ObjectNameNoToken(uuid, filename) == filename

\* files.py line 39: object_name = f"{uuid.uuid4()}{file.filename}"
ObjectName(uuid, filename) == UuidStr(uuid) \o filename

\* the ids a download request may carry: the ids the store can assign,
\* and one of the right length that is not hexadecimal
MalformedIds ==
  { [i \in 1..OID_LEN |-> IF i = OID_LEN THEN "g" ELSE "0"] }

FileIds == { OidStr(n) : n \in 1..MaxBlobs } \cup MalformedIds


(* ------------------------------- state --------------------------------- *)
VARIABLES
  STORAGE_BACKEND,  \* config.py line 10, fixed when the process starts
  blobs,            \* storage backend: object_name -> stored bytes
  records,          \* the "files" collection, in natural (insertion) order
  serving,          \* the requests being served, each with its handler's position
  out,              \* the request answered by the last step, with its response
  acked,            \* history: the successful upload responses with their inputs
  okKeys            \* history: keys whose storage upload returned normally

vars == <<STORAGE_BACKEND, blobs, records, serving, out, acked, okKeys>>

NoResp == [status |-> 0]

IdleReq ==
  [ kind |-> "none", pc |-> "idle",
    filename |-> <<>>, content |-> <<>>, content_type |-> "",
    consumed |-> FALSE,          \* the UploadFile stream was read to its end
    file_id |-> <<>>,
    hAttempt |-> 0,              \* attempt number of the handler's @retry
    object_name |-> <<>>, file_content |-> <<>>,
    calls |-> <<>>,              \* history: the client calls of this handler run
    dbAttempts |-> 0,            \* history: attempts of metadata operations
    stAttempts |-> 0,            \* history: attempts of upload_file / get_file
    resp |-> NoResp ]

Init ==
  /\ STORAGE_BACKEND \in Backends
  /\ blobs = <<>>
  /\ records = <<>>
  /\ serving = EmptyBag
  /\ out = IdleReq
  /\ acked = {}
  /\ okKeys = {}

(* --------------------- exceptions and responses ------------------------ *)
HTTPException(status, detail) ==
  [cls |-> "HTTPException", status |-> status, detail |-> detail]

\* an exception of class cls; its str() is taken to be the class name
Raised(cls) == [cls |-> cls, status |-> 0, detail |-> cls]

\* the response of a request that failed; raised is the exception that the
\* handler logged
ErrorResp(status, detail, exc) ==
  [status |-> status, detail |-> detail, raised |-> exc]

\* the request is answered: only its inputs and the response are kept
Finish(r, resp) ==
  [IdleReq EXCEPT !.kind = r.kind, !.pc = "done",
                  !.filename = r.filename, !.content = r.content,
                  !.content_type = r.content_type, !.file_id = r.file_id,
                  !.hAttempt = r.hAttempt, !.calls = r.calls,
                  !.dbAttempts = r.dbAttempts, !.stAttempts = r.stAttempts,
                  !.resp = resp]

\* an HTTPException leaves the handler: tenacity (any exception is retried,
\* reraise=True) runs the handler again until the third attempt, then the
\* HTTPException reaches the caller
HandlerRaise(r, status, detail, exc) ==
  IF r.hAttempt < STOP_AFTER_ATTEMPT
    THEN [r EXCEPT !.pc = "handler", !.hAttempt = @ + 1,
                   !.object_name = <<>>, !.file_content = <<>>,
                   !.calls = <<>>]
    ELSE Finish(r, ErrorResp(status, detail, exc))

\* the except clauses of upload_file, list_files and download_file:
\* "except ValueError" and "except Exception" both raise HTTPException(500),
\* also for an HTTPException raised inside the try block
ExceptClause(exc) ==
  IF exc.cls = "ValueError" THEN [status |-> 500, detail |-> "failed"]
  ELSE [status |-> 500, detail |-> "Internal server error"]

\* an exception raised inside the try block of a handler
RaiseInTry(r, exc) ==
  HandlerRaise(r, ExceptClause(exc).status, ExceptClause(exc).detail, exc)

(* ------------------------------ tenacity ------------------------------- *)
Attempts == 1..STOP_AFTER_ATTEMPT

Min(S) == CHOOSE x \in S : \A y \in S : x <= y

\* @retry(stop=stop_after_attempt(3), wait=wait_fixed(1), reraise=True) on a
\* client method: excs[i] is the exception class the i-th attempt would
\* raise; the result is the number of the attempt whose outcome is returned
TenacityAttempts(excs) ==
  LET ok == { i \in Attempts : excs[i] = "none" }
  IN IF ok = {} THEN STOP_AFTER_ATTEMPT ELSE Min(ok)

\* the attempts of one call: the first `fails` attempts meet `fault`, the
\* others succeed
\* the number of attempts that tenacity makes
AttemptsMade(excs) == TenacityAttempts(excs)

\* the exception classes after which tenacity made one more attempt
RetriedAfter(excs) == { excs[i] : i \in 1..(TenacityAttempts(excs) - 1) }

\* the request r after a call of a client method: op is the method, arg the
\* id or key it was given, excs what its attempts raise (one attempt for a
\* method without @retry), ok whether it returned a record, True or a stream
MetadataOps == { "insert_file", "get_files", "get_file_by_id" }
RetriedStorageOps == { "upload_file", "get_file" }

Called(r, op, arg, excs, ok) ==
  LET n == IF op = "file_exists" THEN 1 ELSE AttemptsMade(excs)
  IN [r EXCEPT
        !.calls = Append(@, [op |-> op, arg |-> arg, attempts |-> n,
                             retried |-> IF op = "file_exists" THEN {}
                                         ELSE RetriedAfter(excs),
                             ok |-> ok]),
        !.dbAttempts = IF op \in MetadataOps THEN @ + n ELSE @,
        !.stAttempts = IF op \in RetriedStorageOps THEN @ + n ELSE @]

Plan(fails, fault) == [i \in Attempts |-> IF i <= fails THEN fault ELSE "ok"]

Plans(faults) ==
  { Plan(0, "ok") } \cup
  { Plan(k, f) : k \in Attempts, f \in faults \ {"ok"} }

(* ------------------------ storage backends ----------------------------- *)
Put(bl, key, bytes) ==
  [k \in (DOMAIN bl) \cup {key} |-> IF k = key THEN bytes ELSE bl[k]]

MinIOFaults == { "ok", "S3Error", "HTTPError" }
LocalFaults == { "ok", "OSError" }

IsMinIO == Lower(STORAGE_BACKEND) = <<"m", "i", "n", "i", "o">>
IsLocal == Lower(STORAGE_BACKEND) = <<"l", "o", "c", "a", "l">>

StorageFaults == IF IsMinIO THEN MinIOFaults ELSE LocalFaults

\* MinIOClient.__init__: bucket_exists / make_bucket
MinIOClientInit(fault) ==
  IF fault = "ok" THEN "none"
  ELSE IF fault = "S3Error" THEN "ValueError"
  ELSE fault

\* LocalStorageClient.__init__: os.makedirs
LocalStorageClientInit(fault) ==
  IF fault = "ok" THEN "none" ELSE "ValueError"

\* get_storage_client(backend): the exception class it raises, or "none"
get_storage_client(fault) ==
  IF IsMinIO THEN MinIOClientInit(fault)
  ELSE IF IsLocal THEN LocalStorageClientInit(fault)
  ELSE "ValueError"

\* MinIOClient.upload_file, one attempt: put_object stores the whole buffer
\* or nothing
MinIOUpload(fault, bl, key, bytes) ==
  IF fault = "ok" THEN [exc |-> "none", blobs |-> Put(bl, key, bytes)]
  ELSE IF fault = "S3Error" THEN [exc |-> "ValueError", blobs |-> bl]
  ELSE [exc |-> fault, blobs |-> bl]

\* LocalStorageClient.upload_file, one attempt: open(path, 'wb') creates or
\* truncates the file, f.write may fail after `written` bytes were stored;
\* written = -1 when open itself fails
LocalUpload(fault, written, bl, key, bytes) ==
  IF fault = "ok" THEN [exc |-> "none", blobs |-> Put(bl, key, bytes)]
  ELSE IF written < 0 THEN [exc |-> "ValueError", blobs |-> bl]
  ELSE [exc |-> "ValueError", blobs |-> Put(bl, key, SubSeq(bytes, 1, written))]

StorageUpload(f, bl, key, bytes) ==
  IF IsMinIO THEN MinIOUpload(f.fault, bl, key, bytes)
  ELSE LocalUpload(f.fault, f.written, bl, key, bytes)

\* upload_file under its @retry: plan[i] is what happens to the i-th attempt
RECURSIVE StorageUploadRetry(_, _, _, _, _)
StorageUploadRetry(plan, attempt, bl, key, bytes) ==
  LET res == StorageUpload(plan[attempt], bl, key, bytes)
  IN IF res.exc = "none" \/ attempt >= STOP_AFTER_ATTEMPT
       THEN res
       ELSE StorageUploadRetry(plan, attempt + 1, res.blobs, key, bytes)

\* MinIOClient.get_file, one attempt
MinIOGet(fault, bl, key) ==
  IF fault = "ok" THEN
    IF key \in DOMAIN bl THEN [exc |-> "none", value |-> bl[key]]
    ELSE [exc |-> "ValueError", value |-> <<>>]      \* S3Error NoSuchKey
  ELSE IF fault = "S3Error" THEN [exc |-> "ValueError", value |-> <<>>]
  ELSE [exc |-> fault, value |-> <<>>]

\* LocalStorageClient.get_file, one attempt
LocalGet(fault, bl, key) ==
  IF key \notin DOMAIN bl THEN [exc |-> "ValueError", value |-> <<>>]
  ELSE IF fault = "ok" THEN [exc |-> "none", value |-> bl[key]]
  ELSE [exc |-> "ValueError", value |-> <<>>]

StorageGet(fault, bl, key) ==
  IF IsMinIO THEN MinIOGet(fault, bl, key) ELSE LocalGet(fault, bl, key)

\* MinIOClient.file_exists: every S3Error of stat_object means False
MinIOExists(fault, bl, key) ==
  IF fault = "ok" THEN [exc |-> "none", value |-> key \in DOMAIN bl]
  ELSE IF fault = "S3Error" THEN [exc |-> "none", value |-> FALSE]
  ELSE [exc |-> fault, value |-> FALSE]

\* LocalStorageClient.file_exists: os.path.exists, which does not raise
LocalExists(bl, key) == [exc |-> "none", value |-> key \in DOMAIN bl]

\* what the backend may do to a file_exists call
ExistsFaults == IF IsMinIO THEN MinIOFaults ELSE {"ok"}

\* what the attempts of get_file raise
StorageGetExcs(plan, bl, key) ==
  [i \in Attempts |-> StorageGet(plan[i], bl, key).exc]

\* what the attempts of upload_file raise
StorageUploadExcs(plan, bl, key, bytes) ==
  [i \in Attempts |-> StorageUpload(plan[i], bl, key, bytes).exc]

\* get_file under its @retry
StorageGetRetry(plan, bl, key) ==
  StorageGet(
    plan[TenacityAttempts([i \in Attempts |-> StorageGet(plan[i], bl, key).exc])],
    bl, key)

StorageExists(fault, bl, key) ==
  IF IsMinIO THEN MinIOExists(fault, bl, key) ELSE LocalExists(bl, key)

Status(status, error) == [status |-> status, error |-> error]

\* MinIOClient.check_health: only S3Error is caught
MinIOCheckHealth(fault) ==
  IF fault = "ok" THEN [exc |-> "none", value |-> Status(HEALTHY, "")]
  ELSE IF fault = "S3Error" THEN [exc |-> "none", value |-> Status(UNHEALTHY, fault)]
  ELSE [exc |-> fault, value |-> Status(UNHEALTHY, fault)]

\* LocalStorageClient.check_health: "except Exception" catches its own
\* ValueError("Storage path inaccessible")
LocalCheckHealth(fault) ==
  IF fault = "ok" THEN [exc |-> "none", value |-> Status(HEALTHY, "")]
  ELSE [exc |-> "none", value |-> Status(UNHEALTHY, "Storage path inaccessible")]

StorageCheckHealth(fault) ==
  IF IsMinIO THEN MinIOCheckHealth(fault) ELSE LocalCheckHealth(fault)

(* ------------------------ metadata store client ------------------------ *)
MongoFaults == { "ok", "OperationFailure", "ConnectionFailure" }

\* what one attempt of insert_file, get_files, get_file_by_id raises:
\* OperationFailure becomes ValueError, anything else is not caught
MongoExc(fault) ==
  IF fault = "ok" THEN "none"
  ELSE IF fault = "OperationFailure" THEN "ValueError"
  ELSE fault

\* an insert that replaces the collection by the new document
insert_file_replacing(fault, recs, doc) ==
  [ exc |-> MongoExc(fault),
    records |-> IF fault = "ok" THEN <<doc>> ELSE recs,
    value |-> IF fault = "ok" THEN OidStr(doc._id) ELSE <<>> ]

\* an insert whose document is stored although insert_file raises
insert_file_stored_on_failure(fault, recs, doc) ==
  [ exc |-> MongoExc(fault),
    records |-> Append(recs, doc),
    value |-> IF fault = "ok" THEN OidStr(doc._id) ELSE <<>> ]

\* MongoDBClient.insert_file, one attempt; an insert_one that raises left
\* the collection unchanged
insert_file(fault, recs, doc) ==
  [ exc |-> MongoExc(fault),
    records |-> IF fault = "ok" THEN Append(recs, doc) ELSE recs,
    value |-> IF fault = "ok" THEN OidStr(doc._id) ELSE <<>> ]

\* a find() that returns the first document only
get_files_limited(fault, recs) ==
  [ exc |-> MongoExc(fault),
    value |-> IF fault = "ok" /\ Len(recs) > 0 THEN <<recs[1]>> ELSE <<>> ]

\* MongoDBClient.get_files, one attempt: list(collection.find())
get_files(fault, recs) ==
  [ exc |-> MongoExc(fault),
    value |-> IF fault = "ok" THEN recs ELSE <<>> ]

\* MongoDBClient.get_file_by_id, one attempt: ObjectId(file_id) raises
\* bson.errors.InvalidId on a malformed id, find_one returns None (<<>>)
\* when no document has the id
get_file_by_id(fault, recs, file_id) ==
  IF ~ObjectIdIsValid(file_id) THEN [exc |-> "InvalidId", value |-> <<>>]
  ELSE IF fault # "ok" THEN [exc |-> MongoExc(fault), value |-> <<>>]
  ELSE LET oid == ObjectIdOf(file_id)
       IN [exc |-> "none", value |-> SelectSeq(recs, LAMBDA d : d._id = oid)]

\* what the attempts of insert_file and get_files raise
MongoExcs(plan) == [i \in Attempts |-> MongoExc(plan[i])]

\* what the attempts of get_file_by_id raise
GetFileByIdExcs(plan, recs, file_id) ==
  [i \in Attempts |-> get_file_by_id(plan[i], recs, file_id).exc]

\* get_file_by_id under its @retry
GetFileByIdRetry(plan, recs, file_id) ==
  get_file_by_id(
    plan[TenacityAttempts([i \in Attempts |->
                             IF ObjectIdIsValid(file_id) THEN MongoExc(plan[i])
                             ELSE "InvalidId"])],
    recs, file_id)

\* get_files under its @retry
GetFilesRetry(plan, recs) ==
  get_files(plan[TenacityAttempts([i \in Attempts |-> MongoExc(plan[i])])], recs)

\* insert_file under its @retry
InsertFileRetry(plan, recs, doc) ==
  insert_file(plan[TenacityAttempts([i \in Attempts |-> MongoExc(plan[i])])],
              recs, doc)

\* MongoDBClient.check_health: only ConnectionFailure is caught
MongoCheckHealth(fault) ==
  IF fault = "ok" THEN [exc |-> "none", value |-> Status(HEALTHY, "")]
  ELSE IF fault = "ConnectionFailure"
    THEN [exc |-> "none", value |-> Status(UNHEALTHY, fault)]
  ELSE [exc |-> fault, value |-> Status(UNHEALTHY, fault)]

(* ----------------------------- requests -------------------------------- *)
Requests == BagToSet(serving)

\* the response of the request answered last was sent (see Respond)
Sent == out = IdleReq

One(r) == SetToBag({r})

\* there is room for one more request
Room == BagCardinality(serving) < MaxRequests

\* a request arrives and is dispatched to r2; an answered request is not
\* served any more, its response is on the way out
Arrive(r2) ==
  /\ serving' = IF r2.pc = "done" THEN serving ELSE serving (+) One(r2)
  /\ out' = IF r2.pc = "done" THEN r2 ELSE IdleReq

\* the handler of request r moves on to r2
Step(r, r2) ==
  /\ serving' = IF r2.pc = "done" THEN serving (-) One(r)
                 ELSE (serving (-) One(r)) (+) One(r2)
  /\ out' = IF r2.pc = "done" THEN r2 ELSE IdleReq

\* Depends(get_storage_client_dep), Depends(get_mongo_client): the clients
\* are constructed for every request before the handler is called, and an
\* exception of a dependency is answered with status 500.  list_files
\* depends on the metadata client only, whose constructor does not connect.
Dispatch(r, fault) ==
  LET exc == IF r.kind = "list" THEN "none" ELSE get_storage_client(fault)
  IN IF exc = "none"
       THEN [r EXCEPT !.pc = "handler", !.hAttempt = 1]
       ELSE Finish([IdleReq EXCEPT !.kind = r.kind],
                   ErrorResp(500, "Internal Server Error", Raised(exc)))

\* the faults that the construction of the storage client may meet
InitFaults == StorageFaults \ {"ok"}

\* the upload requests being served
Uploading == { r \in Requests : r.kind = "upload" }

NumUploading == BagCardinality([r \in Uploading |-> serving[r]])

\* the download requests being served
Downloading == { r \in Requests : r.kind = "download" }

NumDownloading == BagCardinality([r \in Downloading |-> serving[r]])

StartUpload ==
  /\ Sent /\ Room
  /\ Cardinality(DOMAIN blobs) + NumUploading < MaxBlobs
  /\ \/ \E in \in UploadInputs :
          Arrive(Dispatch([IdleReq EXCEPT !.kind = "upload",
                                            !.filename = in.filename,
                                            !.content = in.content,
                                            !.content_type = in.content_type],
                            "ok"))
     \/ \E fault \in InitFaults :
          Arrive(Dispatch([IdleReq EXCEPT !.kind = "upload"], fault))
  /\ UNCHANGED <<STORAGE_BACKEND, blobs, records, acked, okKeys>>

StartList ==
  /\ Sent /\ Room
  /\ Arrive(Dispatch([IdleReq EXCEPT !.kind = "list"], "ok"))
  /\ UNCHANGED <<STORAGE_BACKEND, blobs, records, acked, okKeys>>

StartDownload ==
  /\ Sent /\ Room
  /\ NumDownloading < MaxDownloads
  /\ \/ \E id \in FileIds :
          Arrive(Dispatch([IdleReq EXCEPT !.kind = "download",
                                          !.file_id = id], "ok"))
     \/ \E fault \in InitFaults :
          Arrive(Dispatch([IdleReq EXCEPT !.kind = "download"], fault))
  /\ UNCHANGED <<STORAGE_BACKEND, blobs, records, acked, okKeys>>

StartHealth ==
  /\ Sent /\ Room
  /\ \E fault \in StorageFaults :
       Arrive(Dispatch([IdleReq EXCEPT !.kind = "health"], fault))
  /\ UNCHANGED <<STORAGE_BACKEND, blobs, records, acked, okKeys>>

(* upload_file, files.py lines 24-64 *)

\* the keys that exist: of stored blobs and of requests in flight
KeysInUse == (DOMAIN blobs) \cup { r.object_name : r \in Uploading }

\* uuid.uuid4(): a value that was not drawn for any key that exists
uuid4 ==
  Min({ u \in 1..(MaxBlobs + 1) :
          \A k \in KeysInUse : Len(k) < UUID_LEN
                                \/ SubSeq(k, 1, UUID_LEN) # UuidStr(u) })

\* the ObjectId that insert_one generates: one that no document carries
NewObjectId ==
  Min({ i \in 1..(Len(records) + 1) :
          \A j \in 1..Len(records) : records[j]._id # i })

\* a handler without the test for an empty body
IsEmptyNever(file_content) == FALSE

\* line 41: the test that rejects an empty body
IsEmpty(file_content) == Len(file_content) = 0

\* a read that finds the stream rewound to its start
FileReadRewound(r) == r.content

\* line 40: await file.read() returns what is left of the UploadFile stream,
\* nothing once a run of the handler has read it
FileRead(r) == IF r.consumed THEN <<>> ELSE r.content

\* lines 28-45, one run of the handler up to the storage upload:
\* validation, key generation, reading the body.  A second run reads the
\* UploadFile stream from where the first run left it, at its end.
UploadAttempt(r, uuid) ==
  IF r.filename = <<>> THEN
    HandlerRaise(r, 400, "No file provided",
                 HTTPException(400, "No file provided"))
  ELSE IF ~IsAllowed(r.filename) THEN
    HandlerRaise(r, 400, "Unsupported file type",
                 HTTPException(400, "Unsupported file type"))
  ELSE
    LET object_name == ObjectName(uuid, r.filename)
        file_content == FileRead(r)
        r1 == [r EXCEPT !.object_name = object_name,
                        !.file_content = file_content,
                        !.consumed = TRUE]
    IN IF IsEmpty(file_content)
         THEN RaiseInTry(r1, HTTPException(400, "File is empty"))
         ELSE [r1 EXCEPT !.pc = "storage_upload"]

\* the runs of the handler that end before any backend call follow each
\* other with nothing but the wait between them
RECURSIVE UploadRun(_, _)
UploadRun(r, uuid) ==
  LET r2 == UploadAttempt(r, uuid)
  IN IF r2.pc = "handler" THEN UploadRun(r2, uuid) ELSE r2

UploadHandler ==
  /\ Sent
  /\ \E r \in Requests :
       /\ r.kind = "upload" /\ r.pc = "handler"
       /\ Step(r, UploadRun(r, uuid4))
       /\ UNCHANGED <<STORAGE_BACKEND, blobs, records, acked, okKeys>>

\* what may happen to the attempts of a storage upload of bytes: the
\* first `fails` attempts meet the fault, the local write after `written`
\* bytes (-1: open fails)
UploadPlans(bytes) ==
  { [i \in Attempts |-> [fault |-> "ok", written |-> -1]] } \cup
  { [i \in Attempts |-> IF i <= k THEN [fault |-> f, written |-> w]
                                  ELSE [fault |-> "ok", written |-> -1]] :
      k \in Attempts, f \in StorageFaults \ {"ok"},
      w \in IF IsLocal THEN -1..(Len(bytes) - 1) ELSE {-1} }

\* a handler that inserts the record whatever upload_file did
InsertsAfterAlways(exc) == TRUE

\* lines 46-55: the handler goes on to insert_file only when upload_file
\* returned; exc is what upload_file raised
InsertsAfter(exc) == exc = "none"

\* a document whose size is not measured on the bytes read
FileMetadataUnsized(r, id) ==
  [ _id |-> id, filename |-> r.filename, size |-> 0,
    content_type |-> r.content_type, object_name |-> r.object_name ]

\* lines 48-54
FileMetadata(r, id) ==
  [ _id |-> id, filename |-> r.filename, size |-> Len(r.file_content),
    content_type |-> r.content_type, object_name |-> r.object_name ]

\* line 58; content and content_type are the request's inputs
Ack(r, file_id) ==
  [ file_id |-> file_id, filename |-> r.filename,
    size |-> Len(r.file_content), content |-> r.content,
    content_type |-> r.content_type ]

\* lines 46-64, after "await file.read()": storage_client.upload_file,
\* mongo_client.insert_file (insert_one puts a new ObjectId into
\* file_metadata) and the response
UploadWrite ==
  /\ Sent
  /\ \E r \in Requests :
       /\ r.kind = "upload" /\ r.pc = "storage_upload"
       /\ \E plan \in UploadPlans(r.file_content) :
          \E up \in { StorageUploadRetry(plan, 1, blobs, r.object_name,
                                         r.file_content) } :
          \E r1 \in { Called(r, "upload_file", r.object_name,
                              StorageUploadExcs(plan, blobs, r.object_name,
                                                r.file_content),
                              up.exc = "none") } :
               /\ blobs' = up.blobs
               /\ okKeys' = IF up.exc = "none" THEN okKeys \cup {r.object_name}
                            ELSE okKeys
               /\ IF ~InsertsAfter(up.exc) THEN
                    /\ Step(r, RaiseInTry(r1, Raised(up.exc)))
                    /\ UNCHANGED <<records, acked>>
                  ELSE
                    \E mplan \in Plans(MongoFaults) :
                    \E ins \in { InsertFileRetry(mplan, records,
                                                 FileMetadata(r, NewObjectId)) } :
                    \E r2 \in { Called(r1, "insert_file", r.object_name,
                                        MongoExcs(mplan), ins.exc = "none") } :
                         /\ records' = ins.records
                         /\ IF ins.exc = "none" THEN
                              /\ Step(r, Finish(r2, [status |-> 200,
                                                     file_id |-> ins.value,
                                                     filename |-> r.filename,
                                                     size |-> Len(r.file_content)]))
                              /\ acked' = acked \cup {Ack(r, ins.value)}
                            ELSE
                              /\ Step(r, RaiseInTry(r2, Raised(ins.exc)))
                              /\ UNCHANGED acked
       /\ UNCHANGED STORAGE_BACKEND

(* list_files, files.py lines 66-85 *)

\* lines 73-79: the projection of the documents
ListProjection(files) ==
  [i \in 1..Len(files) |->
     [file_id |-> OidStr(files[i]._id), filename |-> files[i].filename]]

ListFiles ==
  /\ Sent
  /\ \E r \in Requests :
       /\ r.kind = "list" /\ r.pc = "handler"
       /\ \E plan \in Plans(MongoFaults) :
          \E res \in { GetFilesRetry(plan, records) } :
          \E r1 \in { Called(r, "get_files", <<>>, MongoExcs(plan),
                              res.exc = "none") } :
               Step(r,
                         IF res.exc = "none"
                           THEN Finish(r1, [status |-> 200,
                                            files |-> ListProjection(res.value)])
                           ELSE RaiseInTry(r1, Raised(res.exc)))
       /\ UNCHANGED <<STORAGE_BACKEND, blobs, records, acked, okKeys>>

(* download_file, files.py lines 87-121 *)

\* a response that does not carry the recorded content type
StreamingResponseOctet(file_stream, file_metadata) ==
  [ status |-> 200, body |-> file_stream,
    media_type |-> "application/octet-stream",
    filename |-> file_metadata.filename ]

\* lines 111-115
StreamingResponse(file_stream, file_metadata) ==
  [ status |-> 200, body |-> file_stream,
    media_type |-> file_metadata.content_type,
    filename |-> file_metadata.filename ]

\* a handler that reports a malformed id as not found
InvalidIdRunNotFound(r) ==
  Finish(r, ErrorResp(404, "File not found",
                      HTTPException(404, "File not found")))

\* lines 92-96: the id check fails, in every run of the handler
RECURSIVE InvalidIdRun(_)
InvalidIdRun(r) ==
  LET r2 == HandlerRaise(r, 400, "Invalid file ID format",
                         HTTPException(400, "Invalid file ID format"))
  IN IF r2.pc = "handler" THEN InvalidIdRun(r2) ELSE r2

\* a handler that reads the blob named like the uploaded file
ReadKeyFilename(file_metadata) == file_metadata.filename

\* line 109: the key that get_file is given
ReadKey(file_metadata) == file_metadata.object_name

\* lines 91-121, one run of the handler: the id check, the metadata
\* lookup, file_exists, get_file and the StreamingResponse
DownloadFile ==
  /\ Sent
  /\ \E r \in Requests :
       /\ r.kind = "download" /\ r.pc = "handler"
       /\ IF ~ObjectIdIsValid(r.file_id) THEN
            Step(r, InvalidIdRun(r))
          ELSE
            \E plan \in Plans(MongoFaults) :
            \E res \in { GetFileByIdRetry(plan, records, r.file_id) } :
            \E r1 \in { Called(r, "get_file_by_id", r.file_id,
                                GetFileByIdExcs(plan, records, r.file_id),
                                res.exc = "none" /\ res.value # <<>>) } :
              IF res.exc # "none" THEN Step(r, RaiseInTry(r1, Raised(res.exc)))
              ELSE IF res.value = <<>> THEN
                Step(r, RaiseInTry(r1, HTTPException(404, "File not found in database")))
              ELSE
                \E file_metadata \in { Head(res.value) }, efault \in ExistsFaults :
                \E ex \in { StorageExists(efault, blobs, file_metadata.object_name) } :
                \E r2 \in { Called(r1, "file_exists", file_metadata.object_name,
                                    <<>>, ex.exc = "none" /\ ex.value) } :
                  IF ex.exc # "none" THEN Step(r, RaiseInTry(r2, Raised(ex.exc)))
                  ELSE IF ~ex.value THEN
                    Step(r, RaiseInTry(r2, HTTPException(404, "File not found in storage")))
                  ELSE
                    \E gplan \in Plans(StorageFaults) :
                    \E key \in { ReadKey(file_metadata) } :
                    \E got \in { StorageGetRetry(gplan, blobs, key) } :
                    \E r3 \in { Called(r2, "get_file", key,
                                        StorageGetExcs(gplan, blobs, key),
                                        got.exc = "none") } :
                      IF got.exc # "none"
                        THEN Step(r, RaiseInTry(r3, Raised(got.exc)))
                        ELSE Step(r, Finish(r3, StreamingResponse(got.value,
                                                                  file_metadata)))
       /\ UNCHANGED <<STORAGE_BACKEND, blobs, records, acked, okKeys>>

(* health_check, files.py lines 123-148 *)

\* an overall status that is healthy when either component is
OverallStatusEither(mongo_status, storage_status) ==
  IF mongo_status.status = HEALTHY \/ storage_status.status = HEALTHY
    THEN HEALTHY ELSE UNHEALTHY

\* line 131
OverallStatus(mongo_status, storage_status) ==
  IF mongo_status.status = HEALTHY /\ storage_status.status = HEALTHY
    THEN HEALTHY ELSE UNHEALTHY

\* storage_client.check_health was not called
NotProbed == [exc |-> "not called", value |-> Status(UNHEALTHY, "")]

\* the handler has no @retry; probes records what each check_health did
HealthCheck ==
  /\ Sent
  /\ \E r \in Requests :
       /\ r.kind = "health" /\ r.pc = "handler"
       /\ \E mfault \in MongoFaults, sfault \in StorageFaults :
          \E m \in { MongoCheckHealth(mfault) }, s \in { StorageCheckHealth(sfault) } :
               Step(r,
                 IF m.exc # "none" THEN
                   Finish(r, [status |-> 200, overall |-> UNHEALTHY,
                              components |-> [mongodb |-> Status(UNHEALTHY, m.exc),
                                              storage |-> Status(UNHEALTHY, m.exc)],
                              probes |-> [mongodb |-> m, storage |-> NotProbed]])
                 ELSE IF s.exc # "none" THEN
                   Finish(r, [status |-> 200, overall |-> UNHEALTHY,
                              components |-> [mongodb |-> Status(UNHEALTHY, s.exc),
                                              storage |-> Status(UNHEALTHY, s.exc)],
                              probes |-> [mongodb |-> m, storage |-> s]])
                 ELSE
                   Finish(r, [status |-> 200,
                              overall |-> OverallStatus(m.value, s.value),
                              components |-> [mongodb |-> m.value,
                                              storage |-> s.value],
                              probes |-> [mongodb |-> m, storage |-> s]]))
       /\ UNCHANGED <<STORAGE_BACKEND, blobs, records, acked, okKeys>>

\* the response of the answered request is sent; sending touches neither
\* backend, so it is taken to follow the handler's return at once
Respond ==
  /\ ~Sent
  /\ out' = IdleReq
  /\ UNCHANGED <<STORAGE_BACKEND, blobs, records, serving, acked, okKeys>>

Next ==
  \/ Respond
  \/ StartUpload
  \/ StartList
  \/ StartDownload
  \/ StartHealth
  \/ UploadHandler
  \/ UploadWrite
  \/ ListFiles
  \/ DownloadFile
  \/ HealthCheck

Spec == Init /\ [][Next]_vars

(* ----------------------------- properties ------------------------------- *)

\* the handler of the answered request was called (its dependencies were
\* constructed)
HandlerRan == out.hAttempt >= 1

Answered(kind) == out.kind = kind /\ HandlerRan

\* the answered request got the response 200
Succeeded(kind) == Answered(kind) /\ out.resp.status = 200

RecordIndexes == 1..Len(records)

\* C1: every metadata record's object_name addresses a blob that is present
\* in the storage backend, and the storage upload of that key had returned
\* normally (so an upload whose storage write failed wrote no record).
C1_RecordsHaveBlobs ==
  \A i \in RecordIndexes :
    /\ records[i].object_name \in DOMAIN blobs
    /\ records[i].object_name \in okKeys

\* a record exists next to a blob whose upload wrote no record
C1_Witness ==
  /\ Len(records) >= 1
  /\ \E k \in DOMAIN blobs : \A i \in RecordIndexes : records[i].object_name # k

\* C2: a download that succeeds for the id of an acknowledged upload streams
\* exactly the uploaded bytes, tagged with the declared content type and the
\* original filename; a download of such an id never finds the record
\* missing; and the blob stored under the record of every acknowledged
\* upload is exactly the uploaded content (what read(k) yields).
C2_DownloadRoundTrip ==
  /\ \A a \in acked :
       Succeeded("download") /\ out.file_id = a.file_id =>
         /\ out.resp.body = a.content
         /\ out.resp.media_type = a.content_type
         /\ out.resp.filename = a.filename
  /\ \A a \in acked :
       Answered("download") /\ out.file_id = a.file_id /\ out.resp.status # 200 =>
         out.resp.raised # HTTPException(404, "File not found in database")
  /\ \A a \in acked :
       \E i \in RecordIndexes :
         /\ OidStr(records[i]._id) = a.file_id
         /\ records[i].object_name \in DOMAIN blobs
         /\ blobs[records[i].object_name] = a.content

\* a download of an acknowledged upload succeeded while another blob exists
C2_Witness ==
  /\ Succeeded("download")
  /\ \E a \in acked : a.file_id = out.file_id
  /\ Cardinality(DOMAIN blobs) >= 2

\* the inputs for which the specification rejects an upload
InvalidInput(r) ==
  \/ r.filename = <<>>
  \/ \A ext \in ALLOWED_EXTENSIONS : ~EndsWith(Lower(r.filename), ext)
  \/ Len(r.content) = 0

\* C3: no step of the handler of an upload request with invalid input (no
\* filename, extension outside the allow-list, zero-length content) changes
\* the blobs or the records.
C3_RejectionHasNoEffect ==
  [][ \A r \in Requests :
        /\ r.kind = "upload" /\ InvalidInput(r)
        /\ CopiesIn(r, serving') < CopiesIn(r, serving)
        => blobs' = blobs /\ records' = records ]_vars

\* an upload with an invalid input was answered while a record exists
C3_Witness ==
  /\ Answered("upload") /\ InvalidInput(out)
  /\ out.resp.status # 200
  /\ Len(records) >= 1

\* C4 (as specified): every upload rejected for invalid input is answered with
\* status 400, never 500.
C4_RejectionIs400 ==
  Answered("upload") /\ InvalidInput(out) => out.resp.status = 400

\* C5 (as specified): a download whose metadata lookup found no record, or
\* whose blob is absent from storage, is answered with status 404.
C5_NotFoundIs404 ==
  /\ Answered("download")
  /\ out.resp.status # 200
  /\ out.resp.raised.cls = "HTTPException"
  /\ out.resp.raised.status = 404
  => out.resp.status = 404

C7_AckedIsListed ==
  /\ \A a \in acked :
       LET res == get_file_by_id("ok", records, a.file_id)
       IN /\ res.exc = "none"
          /\ Len(res.value) = 1
          /\ res.value[1].filename = a.filename
          /\ res.value[1].size = a.size
  /\ Succeeded("list") =>
       \A a \in acked :
         \E j \in 1..Len(out.resp.files) :
           /\ out.resp.files[j].file_id = a.file_id
           /\ out.resp.files[j].filename = a.filename

\* a list succeeded after two uploads were acknowledged
C7_Witness ==
  /\ Succeeded("list")
  /\ Cardinality(acked) >= 2

\* both check_health calls returned the status healthy
BothProbesHealthy ==
  /\ out.resp.probes.mongodb.exc = "none"
  /\ out.resp.probes.mongodb.value.status = HEALTHY
  /\ out.resp.probes.storage.exc = "none"
  /\ out.resp.probes.storage.value.status = HEALTHY

\* C8: the overall status that health_check returns is healthy exactly when
\* both probes reported healthy; otherwise, also when a probe raised, it is
\* unhealthy, and the response has an entry for both components.
C8_OverallStatus ==
  Answered("health") =>
    /\ out.resp.overall = HEALTHY <=> BothProbesHealthy
    /\ out.resp.overall \in {HEALTHY, UNHEALTHY}
    /\ DOMAIN out.resp.components = {"mongodb", "storage"}
    /\ \A k \in {"mongodb", "storage"} :
         out.resp.components[k].status \in {HEALTHY, UNHEALTHY}
    /\ ~BothProbesHealthy =>
         \E k \in {"mongodb", "storage"} :
           out.resp.components[k].status = UNHEALTHY

\* a health check was answered after one probe reported unhealthy and the
\* other healthy
C8_Witness ==
  /\ Answered("health")
  /\ out.resp.probes.mongodb.exc = "none"
  /\ out.resp.probes.mongodb.value.status = HEALTHY
  /\ out.resp.probes.storage.exc = "none"
  /\ out.resp.probes.storage.value.status = UNHEALTHY

\* C9 (as specified): check_health of the storage backend and of the metadata
\* store client never raises, whatever the fault of the backend.
C9_ProbesNeverRaise ==
  Answered("health") =>
    /\ out.resp.probes.mongodb.exc = "none"
    /\ out.resp.probes.storage.exc \in {"none", "not called"}

\* C10: object_name is unique across all records; two upload requests in
\* flight hold different keys, and a request that is about to write holds a
\* key under which no blob is stored.
C10_UniqueObjectNames ==
  /\ \A i, j \in RecordIndexes :
       i # j => records[i].object_name # records[j].object_name
  /\ \A r, q \in Requests :
       /\ r.pc = "storage_upload" /\ q.pc = "storage_upload"
       /\ r # q \/ CopiesIn(r, serving) > 1
       => r.object_name # q.object_name
  /\ \A r \in Requests :
       r.pc = "storage_upload" => r.object_name \notin DOMAIN blobs

\* two records carry the same filename
C10_Witness ==
  \E i, j \in RecordIndexes :
    i # j /\ records[i].filename = records[j].filename

\* the kinds of request that only read
ReadOnlyKinds == { "list", "download", "health" }

\* C11: no step removes or changes an existing record: the records of before
\* are a prefix of the records of after; the records grow by one at a time
\* and only in the step that answers an upload with 200; and a step of a list,
\* download or health request changes neither the records nor the blobs.
C11_RecordsReadOnly ==
  [][ /\ Len(records') >= Len(records)
      /\ SubSeq(records', 1, Len(records)) = records
      /\ records' # records =>
            /\ Len(records') = Len(records) + 1
            /\ out'.kind = "upload" /\ out'.resp.status = 200
      /\ \/ out'.kind \in ReadOnlyKinds
         \/ \E r \in Requests :
              /\ r.kind \in ReadOnlyKinds
              /\ CopiesIn(r, serving') < CopiesIn(r, serving)
         => blobs' = blobs /\ records' = records ]_vars

\* a list, download or health request was answered while two records exist
C11_Witness ==
  /\ out.kind \in ReadOnlyKinds /\ HandlerRan
  /\ Len(records) >= 2

\* the exception classes of the storage backends' libraries
BackendSpecific == (MinIOFaults \cup LocalFaults) \ { "ok" }

\* C12 (as specified): the exception that a failed upload or download handler
\* received from its clients is never of a class of a storage backend's
\* library.
C12_OnlyStorageError ==
  /\ out.kind \in { "upload", "download" } /\ HandlerRan
  /\ out.resp.status # 200
  => out.resp.raised.cls \notin BackendSpecific

\* the exception classes of a lost or refused connection to the store
ConnectivityClass == { "ConnectionFailure" }

\* the calls of metadata operations that the answered request's handler made
\* in its last run
MetadataCalls ==
  { i \in 1..Len(out.calls) : out.calls[i].op \in MetadataOps }

\* C13 (as specified): insert_file, get_files and get_file_by_id make another
\* attempt only after a failure of the connectivity class; after any other
\* failure the call is not attempted again.
C13_RetryOnlyTransient ==
  HandlerRan =>
    \A i \in MetadataCalls : out.calls[i].retried \subseteq ConnectivityClass

\* C14 (as specified): when an upload, list or download request is answered,
\* its metadata operation and its storage upload or read were each attempted
\* at most three times since the request arrived.
C14_AttemptBudget ==
  out.kind \in { "upload", "list", "download" } =>
    /\ out.dbAttempts <= STOP_AFTER_ATTEMPT
    /\ out.stAttempts <= STOP_AFTER_ATTEMPT

\* the answered request is an upload that was rejected for its input, or a
\* download whose handler raised a 404
RejectedOrNotFound ==
  /\ HandlerRan /\ out.resp.status # 200
  /\ out.resp.raised.cls = "HTTPException"
  /\ \/ out.kind = "upload" /\ InvalidInput(out) /\ out.resp.raised.status = 400
     \/ out.kind = "download" /\ out.resp.raised.status = 404

\* C15 (as specified): an upload rejected for its input and a download that
\* ends in not-found are answered by the first run of the handler.
C15_RejectionNotRetried ==
  RejectedOrNotFound => out.hAttempt = 1

\* the keys under which a storage upload returned normally and to which no
\* record refers
Orphans ==
  { k \in okKeys : \A j \in RecordIndexes : records[j].object_name # k }

\* C16: a storage upload that returned normally in a step that does not
\* answer the upload with 200 leaves an orphan; an upload is answered 200 only
\* by the first run of its handler, in the step of its storage upload and for
\* a key that has a record; an orphan stays an orphan and keeps its bytes;
\* every entry of a list answered 200 is a record, so of no orphan; and no
\* download handler calls file_exists or get_file with the key of an orphan.
C16_OrphanStaysUnreachable ==
  [][ /\ \A k \in okKeys' \ okKeys :
           /\ k \in DOMAIN blobs'
           /\ ~(out'.kind = "upload" /\ out'.resp.status = 200)
                => k \in Orphans'
      /\ out'.kind = "upload" /\ out'.resp.status = 200 =>
           /\ out'.hAttempt = 1
           /\ okKeys' # okKeys
           /\ \A k \in okKeys' \ okKeys : k \notin Orphans'
      /\ \A k \in Orphans :
           /\ k \in Orphans'
           /\ k \in DOMAIN blobs' /\ blobs'[k] = blobs[k]
      /\ out'.kind = "list" /\ out'.resp.status = 200 =>
           \A i \in 1..Len(out'.resp.files) :
             \E j \in 1..Len(records') :
               /\ OidStr(records'[j]._id) = out'.resp.files[i].file_id
               /\ records'[j].object_name \notin Orphans'
      /\ out'.kind = "download" =>
           \A i \in 1..Len(out'.calls) :
             out'.calls[i].op \in { "file_exists", "get_file" }
               => out'.calls[i].arg \notin Orphans' ]_vars

\* a download was answered 200 while an orphan exists
C16_Witness ==
  /\ Orphans # {}
  /\ out.kind = "download" /\ HandlerRan /\ out.resp.status = 200

\* the object_name of the records that carry the answered request's file_id
KeysOfRequestedRecord ==
  { records[j].object_name :
      j \in { j \in RecordIndexes : OidStr(records[j]._id) = Lower(out.file_id) } }

\* C17: the calls that the last run of a download handler made are, in this
\* order, get_file_by_id with the requested id, then file_exists, then
\* get_file; file_exists is called only after get_file_by_id returned a
\* record, get_file only after file_exists returned True as well, and both
\* are given the object_name of the record with the requested id.
C17_DownloadOrder ==
  out.kind = "download" /\ HandlerRan =>
    LET calls == out.calls
    IN /\ Len(calls) <= 3
       /\ Len(calls) >= 1 =>
            /\ calls[1].op = "get_file_by_id"
            /\ calls[1].arg = out.file_id
       /\ Len(calls) >= 2 =>
            /\ calls[2].op = "file_exists"
            /\ calls[1].ok
            /\ calls[2].arg \in KeysOfRequestedRecord
       /\ Len(calls) >= 3 =>
            /\ calls[3].op = "get_file"
            /\ calls[2].ok
            /\ calls[3].arg \in KeysOfRequestedRecord
       /\ out.resp.status = 200 => Len(calls) = 3 /\ calls[3].ok

\* a download was answered 200 after its three calls
C17_Witness ==
  /\ out.kind = "download" /\ out.resp.status = 200
  /\ Len(out.calls) = 3
  /\ out.calls[3].retried # {}

\* C18 (as specified): in every health response both probes were called, and
\* what is reported for a component whose probe returned is what that probe
\* returned.
C18_ProbesIndependent ==
  Answered("health") /\ out.resp.status = 200 =>
    LET probes == out.resp.probes
        components == out.resp.components
    IN /\ probes.mongodb.exc # "not called"
       /\ probes.storage.exc # "not called"
       /\ probes.mongodb.exc = "none" => components.mongodb = probes.mongodb.value
       /\ probes.storage.exc = "none" => components.storage = probes.storage.value

\* C19: the size of every record is the length of the blob stored under the
\* record's object_name, and the size acknowledged to the uploader is the
\* length of the body that was sent.
C19_SizeIsBlobLength ==
  /\ \A j \in RecordIndexes :
       /\ records[j].object_name \in DOMAIN blobs
       /\ records[j].size = Len(blobs[records[j].object_name])
  /\ Succeeded("upload") =>
       /\ out.resp.size = Len(out.content)
       /\ \E j \in RecordIndexes :
            /\ OidStr(records[j]._id) = out.resp.file_id
            /\ records[j].size = out.resp.size

\* two records of different sizes exist
C19_Witness ==
  \E i, j \in RecordIndexes : records[i].size # records[j].size

\* STORAGE_BACKEND names no backend that get_storage_client knows
UnknownBackend == ~IsMinIO /\ ~IsLocal

\* C20 (as specified): a process whose STORAGE_BACKEND names no known backend
\* answers no request of any kind with success.
C20_ConfigurationErrorIsFatal ==
  UnknownBackend => out.resp.status # 200

\* the keys of the blobs of after that were not keys before
NewKeys == (DOMAIN blobs') \ (DOMAIN blobs)

\* C21: a step stores blobs under at most one new key and inserts at most one
\* record; a step that changes the blobs or the records is taken by an upload
\* request in the first run of its handler that has not yet called
\* upload_file or insert_file, and the new key and the new record's
\* object_name are that request's key; an answered upload has made at most
\* one call of upload_file and one of insert_file, of three attempts each.
C21_OneKeyOneRecord ==
  [][ /\ Cardinality(NewKeys) <= 1
      /\ Len(records') <= Len(records) + 1
      /\ blobs' # blobs \/ records' # records =>
           \E r \in Requests :
             /\ r.kind = "upload" /\ r.pc = "storage_upload"
             /\ r.hAttempt = 1 /\ r.stAttempts = 0 /\ r.dbAttempts = 0
             /\ CopiesIn(r, serving') < CopiesIn(r, serving)
             /\ NewKeys \subseteq { r.object_name }
             /\ \A j \in (Len(records) + 1)..Len(records') :
                  records'[j].object_name = r.object_name
             /\ \A r2 \in BagToSet(serving') :
                  r2.kind = "upload" /\ r2.stAttempts > 0
                    => r2.pc = "handler" /\ r2.consumed
      /\ out'.kind = "upload" =>
           /\ out'.stAttempts <= STOP_AFTER_ATTEMPT
           /\ out'.dbAttempts <= STOP_AFTER_ATTEMPT ]_vars

\* an upload was answered by the third run of its handler after upload_file
\* was attempted more than once and insert_file failed: one blob, no record
C21_Witness ==
  /\ out.kind = "upload" /\ out.hAttempt = STOP_AFTER_ATTEMPT
  /\ out.stAttempts >= 2 /\ out.dbAttempts = STOP_AFTER_ATTEMPT
  /\ Cardinality(DOMAIN blobs) = 1 /\ records = <<>>
====
